---- MODULE Spec2Model ----
(***************************************************************************)
(* The dashboard client of LeafSense: web/static/js/dashboard.js (the      *)
(* script index.html loads), the second dashboard script that sits at the  *)
(* end of web/static/css/styles.css (the variant with the pauseUpdates     *)
(* flag), and the series builder createGammaExposurePlot.                  *)
(*                                                                         *)
(* Six specifications share the variables:                                *)
(*   Spec        the event loop of dashboard.js                            *)
(*   SpecTimer   the same loop with the time between the firings           *)
(*   SpecMarketSilent  the same loop, the market endpoint never answering  *)
(*   SpecReload  the same loop over several loads of the page              *)
(*   SpecCss     the event loop of the script in styles.css                *)
(*   SpecSeries  createGammaExposurePlot applied to bounded inputs         *)
(***************************************************************************)
EXTENDS Integers, Sequences, FiniteSets, TLC

VARIABLES
    theme,          \* document.body class: "dark" | "light"  (darkMode in styles.css)
    stored,         \* localStorage "theme": "none" | "dark" | "light"
    expirySelect,   \* value of #expiry-select   (currentExpiryFilter in styles.css)
    customerSelect, \* value of #customer-select
    pauseUpdates,   \* the pauseUpdates flag of the styles.css script
    pendingMarket,  \* the market-metrics fetches that have not settled yet
    pendingExposure,\* the gamma-exposure fetches that have not settled yet
    sentMarket,     \* number of market-metrics requests issued so far
    sentExposure,   \* number of gamma-exposure requests issued so far
    chart,          \* content of the gamma exposure card
    market,         \* content of the spot / change cards
    settled,        \* history (dashboard.js): the fetches that have settled, and whether they rendered
    console,        \* the last console.error: endpoint and error
    now,            \* dashboard.js: milliseconds since the page was loaded
    timers,         \* dashboard.js: the intervals set with setInterval, and when each is due
    exposureData,   \* SpecSeries: the array handed to createGammaExposurePlot
    plot,           \* SpecSeries: what Plotly.newPlot was given
    pc              \* SpecSeries: "input" before the call, "done" after it

vars == <<theme, stored, expirySelect, customerSelect, pauseUpdates,
          pendingMarket, pendingExposure, sentMarket, sentExposure, chart,
          market, settled, console, now, timers, exposureData, plot, pc>>

uiVars == <<theme, stored, expirySelect, customerSelect, pauseUpdates,
            pendingMarket, pendingExposure, sentMarket, sentExposure, chart,
            market, settled, console>>

seriesVars == <<exposureData, plot, pc>>

timeVars == <<now, timers>>

-----------------------------------------------------------------------------
(* Bounds of the model *)

\* longest record array handed to the series builder
MaxRecords == 60

\* requests one endpoint is sent in a run of the event loop
MaxRequests == 2

-----------------------------------------------------------------------------
(* JavaScript values *)

\* null / undefined / a missing field
Null == <<>>

\* a number n held in a field
Num(n) == <<n>>

\* `v || 0`: null, undefined and 0 are falsy and give 0
OrZero(v) == IF v = Null THEN 0 ELSE IF v[1] = 0 THEN 0 ELSE v[1]

\* Math.abs
Abs(n) == IF n < 0 THEN -n ELSE n

\* Math.max of two numbers
Max(a, b) == IF a >= b THEN a ELSE b

-----------------------------------------------------------------------------
(* createGammaExposurePlot: the series builder *)

\* the divisor of the decimation step: Math.floor(arr.length / 20)
TargetBars == 20

\* the place the sort gives the record at position i: behind every record
\* of a smaller strike, and behind the records of the same strike that come
\* before it in the array (Array.prototype.sort is stable)
SortedPosition(arr, i) ==
    1 + Cardinality({j \in 1..Len(arr) :
                        arr[j].strike_price < arr[i].strike_price})
      + Cardinality({j \in 1..(i - 1) :
                        arr[j].strike_price = arr[i].strike_price})

\* the sort left out: the array in its input order
SortByStrike_Unsorted(arr) == arr

\* [...exposureData].sort((a, b) => a.strike_price - b.strike_price)
SortByStrike(arr) ==
    [k \in 1..Len(arr) |->
        arr[CHOOSE i \in 1..Len(arr) : SortedPosition(arr, i) = k]]

\* a step computed against twice the divisor
Step_Doubled(arr) == Max(1, Len(arr) \div (2 * TargetBars))

\* const step = Math.max(1, Math.floor(arr.length / 20))
Step(arr) == Max(1, Len(arr) \div TargetBars)

\* the filter keeping the indices one past the multiples of the step
FilterData_FromOne(arr) ==
    LET kept == {index \in 0..(Len(arr) - 1) : index % Step(arr) = 1 % Step(arr)}
    IN  [k \in 1..Cardinality(kept) |->
            arr[(CHOOSE index \in kept :
                    Cardinality({j \in kept : j < index}) = k - 1) + 1]]

\* sortedData.filter((item, index, arr) => index % step === 0): the records
\* whose index passes the test, in their order
FilterData(arr) ==
    LET kept == {index \in 0..(Len(arr) - 1) : index % Step(arr) = 0}
    IN  [k \in 1..Cardinality(kept) |->
            arr[(CHOOSE index \in kept :
                    Cardinality({j \in kept : j < index}) = k - 1) + 1]]

\* the negation without Math.abs
PutValue_Negated(v) == -OrZero(v)

\* -Math.abs(item.put_gamma_exposure || 0)
PutValue(v) == -Abs(OrZero(v))

\* the strikes of the placeholder chart
SampleStrikes == <<5550, 5600, 5650, 5700, 5750>>

\* Math.random() * 100 + 20 and -Math.random() * 100 - 20, Math.random()
\* taken in hundredths: r stands for r / 100
SampleCall(r) == r + 20
SamplePut(r) == -r - 20

\* the values Math.random() is drawn from (hundredths)
RandomDraws == {0, 99}

\* the sequences of draws one call of the builder can consume
DrawSeqs == [1..(2 * Len(SampleStrikes)) -> RandomDraws]

\* the array sorted in place instead of a copy of it
SortCopy_InPlace(arr) == [source |-> SortByStrike(arr), sorted |-> SortByStrike(arr)]

\* [...exposureData].sort(...): the spread makes a new array and sort works
\* in place on it; source is the argument array after the statement
SortCopy(arr) == [source |-> arr, sorted |-> SortByStrike(arr)]

\* item.call_gamma_exposure || 0
CallValue(item) == OrZero(item.call_gamma_exposure)

\* the net computed from the two sides instead of read from the record
NetValue_Summed(item) ==
    OrZero(item.call_gamma_exposure) + PutValue(item.put_gamma_exposure)

\* item.total_gamma_exposure || 0
NetValue(item) == OrZero(item.total_gamma_exposure)

\* the three traces of a non-empty array
RealTraces(exposureArr) ==
    LET filteredData == FilterData(SortCopy(exposureArr).sorted)
        strikes == [i \in 1..Len(filteredData) |-> filteredData[i].strike_price]
        callValues == [i \in 1..Len(filteredData) |-> CallValue(filteredData[i])]
        putValues == [i \in 1..Len(filteredData) |->
                          PutValue(filteredData[i].put_gamma_exposure)]
        netValues == [i \in 1..Len(filteredData) |-> NetValue(filteredData[i])]
    IN  << [y |-> strikes, x |-> callValues, name |-> "Calls (Long)", type |-> "bar"],
           [y |-> strikes, x |-> putValues, name |-> "Puts (Short)", type |-> "bar"],
           [y |-> strikes, x |-> netValues, name |-> "Net Gamma", type |-> "scatter"] >>

\* the two traces of the placeholder chart
SampleTraces(rnd) ==
    LET n == Len(SampleStrikes)
    IN  << [y |-> SampleStrikes,
            x |-> [i \in 1..n |-> SampleCall(rnd[i])],
            name |-> "Calls (Sample)", type |-> "bar"],
           [y |-> SampleStrikes,
            x |-> [i \in 1..n |-> SamplePut(rnd[n + i])],
            name |-> "Puts (Sample)", type |-> "bar"] >>

\* the placeholder path left out
Traces_NeverSample(exposureArr, rnd) == RealTraces(exposureArr)

\* the traces handed to Plotly; a null payload is held as the empty array
\* (`exposureData && exposureData.length > 0` sends both the same way)
Traces(exposureArr, rnd) ==
    IF Len(exposureArr) > 0 THEN RealTraces(exposureArr) ELSE SampleTraces(rnd)

\* the layout handed to Plotly: the title and the theme's colours
Layout(expiry, isDarkMode) ==
    [title |-> <<"Gamma Exposure by Strike (", expiry, ")">>,
     zerolinecolor |-> IF isDarkMode THEN "#e0e0e0" ELSE "#333333",
     gridcolor |-> IF isDarkMode THEN "#3a4254" ELSE "#d1e0d4",
     plot_bgcolor |-> IF isDarkMode THEN "#242937" ELSE "#ffffff",
     paper_bgcolor |-> IF isDarkMode THEN "#242937" ELSE "#ffffff",
     fontcolor |-> IF isDarkMode THEN "#e0e0e0" ELSE "#333333",
     legend |-> "h"]

\* the light theme titled without the expiry
createGammaExposurePlot_ThemedTitle(exposureArr, expiry, isDarkMode, rnd) ==
    [data |-> Traces(exposureArr, rnd),
     layout |-> [Layout(expiry, isDarkMode) EXCEPT
                    !.title = IF isDarkMode THEN @
                              ELSE <<"Gamma Exposure by Strike">>]]

\* Plotly.newPlot(container, data, layout, config)
createGammaExposurePlot(exposureArr, expiry, isDarkMode, rnd) ==
    [data |-> Traces(exposureArr, rnd), layout |-> Layout(expiry, isDarkMode)]

-----------------------------------------------------------------------------
(* The page: index.html *)

\* the options of #expiry-select
ExpiryOptions == {"0dte", "weekly", "monthly", "all"}

\* the options of #customer-select
CustomerOptions == {"all", "retail", "institutional"}

\* <option value="all" selected>, and the first option of #customer-select
DefaultExpiry == "all"
DefaultCustomer == "all"

-----------------------------------------------------------------------------
(* Inputs of the series builder *)

\* one element of the JSON array of /api/gamma-exposure/; total_gamma, the
\* field the styles.css script reads, is not among the fields dashboard.js reads
Record(strike, call, put, total) ==
    [strike_price |-> strike, call_gamma_exposure |-> call,
     put_gamma_exposure |-> put, total_gamma_exposure |-> total,
     total_gamma |-> Null]

\* the example of the specification, section 8
ExampleInput == << Record(100, Num(5), Num(3), Num(2)),
                   Record(90, Num(1), Num(9), Num(-8)) >>

\* every record over a few strikes and field values, null included
SmallRecords ==
    { Record(s, c, p, t) : s \in {90, 100}, c \in {Null, Num(5)},
                           p \in {Null, Num(0), Num(3), Num(-9)},
                           t \in {Null, Num(-8)} }

\* every array of at most two such records
SmallInputs == {<<>>} \cup {<<r>> : r \in SmallRecords}
                      \cup {<<r1, r2>> : r1, r2 \in SmallRecords}

\* an array of n records whose strikes run through the residues of
\* i * mult modulo modulus: ascending (mult 1), descending (mult modulus - 1),
\* shuffled (mult 7), with ties when modulus is small; puts of both signs
LongInput(n, mult, modulus) ==
    [i \in 1..n |->
        Record(5000 + 5 * ((i * mult) % modulus),
               IF i % 7 = 0 THEN Null ELSE Num(i),
               IF i % 5 = 0 THEN Null ELSE Num(IF i % 2 = 0 THEN i ELSE -i),
               IF i % 3 = 0 THEN Null ELSE Num(i - 10))]

LongInputs ==
    { LongInput(n, m[1], m[2]) :
        n \in 1..MaxRecords, m \in {<<1, 64>>, <<63, 64>>, <<7, 64>>, <<7, 5>>} }

SeriesInputs == SmallInputs \cup LongInputs \cup {ExampleInput}

\* Math.random is called on the placeholder path only
DrawsFor(exposureArr) ==
    IF Len(exposureArr) > 0 THEN {[i \in 1..(2 * Len(SampleStrikes)) |-> 0]}
    ELSE DrawSeqs

NoPlot == [data |-> <<>>, layout |-> <<>>]

\* console.error("Error fetching ...:", error)
NoError == [endpoint |-> "", error |-> ""]
Logged(endpoint, error) == [endpoint |-> endpoint, error |-> error]

InitSeries ==
    /\ exposureData \in SeriesInputs
    /\ plot = NoPlot
    /\ pc = "input"
    /\ theme \in {"dark", "light"}
    /\ expirySelect \in {"all", "0dte"}
    /\ stored = "none"
    /\ customerSelect = DefaultCustomer
    /\ pauseUpdates = FALSE
    /\ pendingMarket = {}
    /\ pendingExposure = {}
    /\ sentMarket = 0
    /\ sentExposure = 0
    /\ chart = [kind |-> "empty", req |-> 0, plot |-> NoPlot]
    /\ market = [spot |-> 0, pct |-> 0, cls |-> 0, abs |-> 0, ts |-> 0,
                 error |-> FALSE]
    /\ settled = {}
    /\ console = NoError
    /\ now = 0
    /\ timers = {}

\* one call createGammaExposurePlot(container, exposureData, expiry)
CreatePlot ==
    /\ pc = "input"
    /\ \E rnd \in DrawsFor(exposureData) :
          plot' = createGammaExposurePlot(exposureData, expirySelect,
                                          theme = "dark", rnd)
    /\ pc' = "done"
    /\ exposureData' = IF Len(exposureData) > 0
                       THEN SortCopy(exposureData).source
                       ELSE exposureData
    /\ UNCHANGED <<uiVars, timeVars>>

NextSeries == CreatePlot

SpecSeries == InitSeries /\ [][NextSeries]_vars

-----------------------------------------------------------------------------
(* The event loop of dashboard.js *)

\* how a fetch can settle: a decoded body, fetch() rejecting, !response.ok,
\* response.json() rejecting
FetchOutcomes == {"ok", "network", "status", "decode"}

\* content of #gamma-exposure-chart; req is the request whose response put it there
EmptyCard == [kind |-> "empty", req |-> 0, plot |-> NoPlot]
LoadingCard == [kind |-> "loading", req |-> 0, plot |-> NoPlot]
\* a .catch handler that logs and leaves the card as it is
ErrorCard_KeepsLoading(id) == [kind |-> "loading", req |-> 0, plot |-> NoPlot]

ErrorCard(id) == [kind |-> "error", req |-> id, plot |-> NoPlot]
PlotCard(id, p) == [kind |-> "plot", req |-> id, plot |-> p]

\* the static content of the spot and change cards in index.html: every
\* element carries the number of the poll it was written from (0: the page as
\* served); error says whether the card shows an error message
StaticMarket == [spot |-> 0, pct |-> 0, cls |-> 0, abs |-> 0, ts |-> 0,
                 error |-> FALSE]

\* the body of /api/market-metrics/ for request id: every field carries the
\* number of its poll, and one field may be missing
MarketFields == {"spot_price", "price_change_pct", "price_change", "timestamp"}

MarketPayload(id, missing) ==
    [f \in MarketFields |-> IF f = missing THEN Null ELSE Num(id)]

MarketPayloads(id) == {MarketPayload(id, m) : m \in MarketFields \cup {"none"}}

\* updateMarketDisplay(data): the elements are written in turn, and toFixed
\* of a missing number, or the match of an invalid date, throws
updateMarketDisplay(display, data) ==
    IF data.spot_price = Null THEN [display |-> display, threw |-> TRUE]
    ELSE LET d1 == [display EXCEPT !.spot = data.spot_price[1]] IN
    IF data.price_change_pct = Null THEN [display |-> d1, threw |-> TRUE]
    ELSE LET d2 == [d1 EXCEPT !.pct = data.price_change_pct[1],
                              !.cls = data.price_change_pct[1]] IN
    IF data.price_change = Null THEN [display |-> d2, threw |-> TRUE]
    ELSE LET d3 == [d2 EXCEPT !.abs = data.price_change[1]] IN
    IF data.timestamp = Null THEN [display |-> d3, threw |-> TRUE]
    ELSE [display |-> [d3 EXCEPT !.ts = data.timestamp[1]], threw |-> FALSE]

\* the bodies /api/gamma-exposure/ answers with in the event loop
LoopPayloads == {<<>>, ExampleInput}

\* the draws of Math.random in the event loop
LoopDrawsFor(exposureArr) ==
    IF Len(exposureArr) > 0 THEN {[i \in 1..(2 * Len(SampleStrikes)) |-> 0]}
    ELSE {[i \in 1..(2 * Len(SampleStrikes)) |-> r] : r \in RandomDraws}

\* loadMarketData(): fetch("/api/market-metrics/")
loadMarketData ==
    /\ sentMarket < MaxRequests
    /\ sentMarket' = sentMarket + 1
    /\ pendingMarket' = pendingMarket \cup
           {[id |-> sentMarket + 1, cycle |-> sentExposure + 1]}

\* a fetch refused while the card shows an error
initGammaExposureChart_StuckOnError ==
    /\ chart.kind # "error"
    /\ sentExposure < MaxRequests
    /\ chart' = LoadingCard
    /\ sentExposure' = sentExposure + 1
    /\ pendingExposure' = pendingExposure \cup
           {[id |-> sentExposure + 1, expiry |-> expirySelect']}

\* initGammaExposureChart(): the select is read, the loading state is shown
\* and the fetch is issued; the handlers of the fetch are ExposureSettles
initGammaExposureChart ==
    /\ sentExposure < MaxRequests
    /\ chart' = LoadingCard
    /\ sentExposure' = sentExposure + 1
    /\ pendingExposure' = pendingExposure \cup
           {[id |-> sentExposure + 1, expiry |-> expirySelect']}

\* updateGammaExposureChart()
updateGammaExposureChart == initGammaExposureChart

\* setInterval(refreshData, 60000): one interval, due one period after the load
Interval == 60000

\* the intervals of the page once DOMContentLoaded has run
PageTimers == {[period |-> Interval, due |-> Interval]}

\* a page that starts dark whatever localStorage holds
StartTheme_AlwaysDark(storedTheme) == "dark"

\* localStorage.getItem("theme") || "dark"
StartTheme(storedTheme) == IF storedTheme = "none" THEN "dark" ELSE storedTheme

\* the state DOMContentLoaded leaves: the theme read from localStorage, the
\* chart and the market data requested, the interval set
Init ==
    /\ stored \in {"none", "dark", "light"}
    /\ theme = StartTheme(stored)
    /\ expirySelect = DefaultExpiry
    /\ customerSelect = DefaultCustomer
    /\ pauseUpdates = FALSE
    /\ chart = LoadingCard
    /\ pendingExposure = {[id |-> 1, expiry |-> DefaultExpiry]}
    /\ sentExposure = 1
    /\ pendingMarket = {[id |-> 1, cycle |-> 1]}
    /\ sentMarket = 1
    /\ market = StaticMarket
    /\ settled = {}
    /\ console = NoError
    /\ now = 0
    /\ timers = PageTimers
    /\ exposureData = <<>>
    /\ plot = NoPlot
    /\ pc = "off"

\* the interval that is due first fires: the time is its due time, and it is
\* due again one period later
IntervalFires ==
    \E t \in timers :
        /\ \A u \in timers : t.due <= u.due
        /\ now' = t.due
        /\ timers' = (timers \ {t}) \cup {[t EXCEPT !.due = t.due + t.period]}

\* refreshData(), called by setInterval every 60000 ms
refreshData ==
    /\ UNCHANGED <<theme, stored, expirySelect, customerSelect, pauseUpdates,
                   market, settled, console, seriesVars>>
    /\ IntervalFires
    /\ loadMarketData
    /\ initGammaExposureChart

\* a toggle that clears the interval and sets it again
toggleTheme_RestartsTimer ==
    /\ theme' = IF theme = "dark" THEN "light" ELSE "dark"
    /\ stored' = theme'
    /\ now' = now
    /\ timers' = {[period |-> Interval, due |-> now + Interval]}
    /\ UNCHANGED <<expirySelect, customerSelect, pauseUpdates, pendingMarket,
                   sentMarket, market, settled, console, seriesVars>>
    /\ initGammaExposureChart

\* the class toggleTheme gives the body: light-mode for dark-mode, else dark-mode
Toggled(mode) == IF mode = "dark" THEN "light" ELSE "dark"

\* toggleTheme(), the click handler of #theme-toggle
toggleTheme ==
    /\ theme' = Toggled(theme)
    /\ stored' = theme'
    /\ UNCHANGED <<expirySelect, customerSelect, pauseUpdates, pendingMarket,
                   sentMarket, market, settled, console, seriesVars, timeVars>>
    /\ initGammaExposureChart

\* a change that sets the select and fetches nothing
ExpiryChange_NoRefetch ==
    /\ \E v \in ExpiryOptions \ {expirySelect} : expirySelect' = v
    /\ UNCHANGED <<theme, stored, customerSelect, pauseUpdates, pendingMarket,
                   sentMarket, market, settled, console, seriesVars, timeVars,
                   pendingExposure, sentExposure, chart>>

\* the change handler of #expiry-select
ExpiryChange ==
    /\ \E v \in ExpiryOptions \ {expirySelect} : expirySelect' = v
    /\ UNCHANGED <<theme, stored, customerSelect, pauseUpdates, pendingMarket,
                   sentMarket, market, settled, console, seriesVars, timeVars>>
    /\ updateGammaExposureChart

\* the change handler of #customer-select
CustomerChange ==
    /\ \E v \in CustomerOptions \ {customerSelect} : customerSelect' = v
    /\ UNCHANGED <<theme, stored, expirySelect, pauseUpdates, pendingMarket,
                   sentMarket, market, settled, console, seriesVars, timeVars>>
    /\ updateGammaExposureChart

\* a settled fetch, as the history keeps it: ok when its .then handlers ran
\* to the end, not ok when its .catch handler ran
Settled(endpoint, id, cycle, ok) ==
    [endpoint |-> endpoint, id |-> id, cycle |-> cycle, ok |-> ok]


\* a failed fetch of the market data issued again from its .catch handler
MarketSettles_Retries ==
    /\ \E r \in pendingMarket, outcome \in FetchOutcomes :
          IF outcome = "ok"
          THEN /\ pendingMarket' = pendingMarket \ {r}
               /\ sentMarket' = sentMarket
               /\ \E data \in MarketPayloads(r.id) :
                      LET res == updateMarketDisplay(market, data)
                      IN  /\ market' = res.display
                          /\ settled' = settled \cup
                                 {Settled("market", r.id, r.cycle, ~res.threw)}
                          /\ console' = IF res.threw
                                        THEN Logged("market", "TypeError")
                                        ELSE console
          ELSE /\ sentMarket < MaxRequests
               /\ sentMarket' = sentMarket + 1
               /\ pendingMarket' = (pendingMarket \ {r}) \cup
                      {[id |-> sentMarket + 1, cycle |-> r.cycle]}
               /\ market' = market
               /\ settled' = settled \cup
                      {Settled("market", r.id, r.cycle, FALSE)}
               /\ console' = Logged("market", outcome)
    /\ UNCHANGED <<theme, stored, expirySelect, customerSelect, pauseUpdates,
                   pendingExposure, sentExposure, chart, seriesVars, timeVars>>

\* a display written only when the exposure fetch of the same cycle has not failed
MarketSettles_Coupled ==
    /\ \E r \in pendingMarket, outcome \in FetchOutcomes :
          /\ pendingMarket' = pendingMarket \ {r}
          /\ IF outcome = "ok"
             THEN \E data \in MarketPayloads(r.id) :
                      LET res == updateMarketDisplay(market, data)
                          blocked == \E x \in settled : /\ x.endpoint = "exposure"
                                                        /\ x.cycle = r.cycle
                                                        /\ ~x.ok
                      IN  /\ market' = IF blocked THEN market ELSE res.display
                          /\ settled' = settled \cup
                                 {Settled("market", r.id, r.cycle, ~res.threw)}
                          /\ console' = IF res.threw
                                        THEN Logged("market", "TypeError")
                                        ELSE console
             ELSE /\ market' = market
                  /\ settled' = settled \cup
                         {Settled("market", r.id, r.cycle, FALSE)}
                  /\ console' = Logged("market", outcome)
    /\ UNCHANGED <<theme, stored, expirySelect, customerSelect, pauseUpdates,
                   pendingExposure, sentMarket, sentExposure, chart, seriesVars, timeVars>>

\* the .then / .catch chain of loadMarketData for one settled fetch: the
\* display is updated from a decoded body; every failure, a throw of
\* updateMarketDisplay included, is logged with console.error and nothing else
MarketSettles ==
    /\ \E r \in pendingMarket, outcome \in FetchOutcomes :
          /\ pendingMarket' = pendingMarket \ {r}
          /\ IF outcome = "ok"
             THEN \E data \in MarketPayloads(r.id) :
                      LET res == updateMarketDisplay(market, data)
                      IN  /\ market' = res.display
                          /\ settled' = settled \cup
                                 {Settled("market", r.id, r.cycle, ~res.threw)}
                          /\ console' = IF res.threw
                                        THEN Logged("market", "TypeError")
                                        ELSE console
             ELSE /\ market' = market
                  /\ settled' = settled \cup
                         {Settled("market", r.id, r.cycle, FALSE)}
                  /\ console' = Logged("market", outcome)
    /\ UNCHANGED <<theme, stored, expirySelect, customerSelect, pauseUpdates,
                   pendingExposure, sentMarket, sentExposure, chart, seriesVars, timeVars>>

\* the URL of the fetch of initGammaExposureChart:
\* `/api/gamma-exposure/?expiry_filter=${selectedExpiry}`
ExposureUrl(r) ==
    [path |-> "/api/gamma-exposure/", query |-> [expiry_filter |-> r.expiry]]

\* a chart titled with the select as it is when the response arrives
ExposureSettles_ReadsSelect ==
    /\ \E r \in pendingExposure, outcome \in FetchOutcomes :
          /\ pendingExposure' = pendingExposure \ {r}
          /\ settled' = settled \cup
                 {Settled("exposure", r.id, r.id, outcome = "ok")}
          /\ IF outcome = "ok"
             THEN /\ \E data \in LoopPayloads : \E rnd \in LoopDrawsFor(data) :
                        chart' = PlotCard(r.id,
                                     createGammaExposurePlot(data, expirySelect,
                                                             theme = "dark", rnd))
                  /\ console' = console
             ELSE /\ chart' = ErrorCard(r.id)
                  /\ console' = Logged("exposure", outcome)
    /\ UNCHANGED <<theme, stored, expirySelect, customerSelect, pauseUpdates,
                   pendingMarket, sentMarket, sentExposure, market, seriesVars, timeVars>>

\* a chart drawn only once the market fetch of the same cycle has settled
ExposureSettles_AfterMarket ==
    /\ \E r \in pendingExposure, outcome \in FetchOutcomes :
          /\ \A m \in pendingMarket : m.cycle # r.id
          /\ pendingExposure' = pendingExposure \ {r}
          /\ settled' = settled \cup
                 {Settled("exposure", r.id, r.id, outcome = "ok")}
          /\ IF outcome = "ok"
             THEN /\ \E data \in LoopPayloads : \E rnd \in LoopDrawsFor(data) :
                        chart' = PlotCard(r.id,
                                     createGammaExposurePlot(data, r.expiry,
                                                             theme = "dark", rnd))
                  /\ console' = console
             ELSE /\ chart' = ErrorCard(r.id)
                  /\ console' = Logged("exposure", outcome)
    /\ UNCHANGED <<theme, stored, expirySelect, customerSelect, pauseUpdates,
                   pendingMarket, sentMarket, sentExposure, market, seriesVars, timeVars>>

\* the .then / .catch chain of initGammaExposureChart for one settled fetch:
\* the plot of the decoded body with the expiry read when the fetch was
\* issued, or the error message
ExposureSettles ==
    /\ \E r \in pendingExposure, outcome \in FetchOutcomes :
          /\ pendingExposure' = pendingExposure \ {r}
          /\ settled' = settled \cup
                 {Settled("exposure", r.id, r.id, outcome = "ok")}
          /\ IF outcome = "ok"
             THEN /\ \E data \in LoopPayloads : \E rnd \in LoopDrawsFor(data) :
                        chart' = PlotCard(r.id,
                                     createGammaExposurePlot(data, r.expiry,
                                                             theme = "dark", rnd))
                  /\ console' = console
             ELSE /\ chart' = ErrorCard(r.id)
                  /\ console' = Logged("exposure", outcome)
    /\ UNCHANGED <<theme, stored, expirySelect, customerSelect, pauseUpdates,
                   pendingMarket, sentMarket, sentExposure, market, seriesVars, timeVars>>

\* a click on #refresh-btn: the script adds no listener to the button
RefreshClick == UNCHANGED vars

Next ==
    \/ refreshData
    \/ toggleTheme
    \/ ExpiryChange
    \/ CustomerChange
    \/ RefreshClick
    \/ MarketSettles
    \/ ExposureSettles

Spec == Init /\ [][Next]_vars

\* half a period passes, no interval being overdue
Tick ==
    /\ now' = now + (Interval \div 2)
    /\ \A t \in timers : now' <= t.due
    /\ UNCHANGED <<uiVars, seriesVars, timers>>

\* the page loaded with nothing in localStorage
InitTimer == Init /\ stored = "none"

NextTimer == Tick \/ Next

\* the page is loaded again: the fetches in flight, the display and the
\* interval go with the old document, localStorage stays, and the
\* DOMContentLoaded handler runs on the page as served
Reload ==
    /\ stored' = stored
    /\ theme' = StartTheme(stored)
    /\ expirySelect' = DefaultExpiry
    /\ customerSelect' = DefaultCustomer
    /\ pauseUpdates' = FALSE
    /\ chart' = LoadingCard
    /\ pendingExposure' = {[id |-> 1, expiry |-> DefaultExpiry]}
    /\ sentExposure' = 1
    /\ pendingMarket' = {[id |-> 1, cycle |-> 1]}
    /\ sentMarket' = 1
    /\ market' = StaticMarket
    /\ settled' = {}
    /\ console' = NoError
    /\ now' = 0
    /\ timers' = PageTimers
    /\ UNCHANGED seriesVars

\* the first visit: nothing in localStorage
InitReload == Init /\ stored = "none"

NextReload == Reload \/ Next

\* the event loop of dashboard.js over several loads of the page
SpecReload == InitReload /\ [][NextReload]_vars

\* the steps of the loop while /api/market-metrics/ answers nothing
NextMarketSilent ==
    \/ refreshData
    \/ toggleTheme
    \/ ExpiryChange
    \/ CustomerChange
    \/ RefreshClick
    \/ ExposureSettles

\* the event loop of dashboard.js with a market endpoint that never answers
\* and an exposure endpoint that answers every request in the end
SpecMarketSilent == Init /\ [][NextMarketSilent]_vars /\ WF_vars(ExposureSettles)

\* the event loop of dashboard.js with the time between the firings
SpecTimer == InitTimer /\ [][NextTimer]_vars

-----------------------------------------------------------------------------
(* The event loop of the script in styles.css *)

\* let currentExpiryFilter = "All"
InitialExpiryFilter == "All"

\* the array with the total_gamma field the script reads filled in
WithTotalGamma(arr) ==
    [i \in 1..Len(arr) |-> [arr[i] EXCEPT !.total_gamma = arr[i].total_gamma_exposure]]

\* the bodies /api/gamma-exposure answers with
CssPayloads == {<<>>, ExampleInput, WithTotalGamma(ExampleInput)}

\* drawGammaExposureChart(data): one bar trace of item.total_gamma by strike;
\* val.toFixed(2) throws on a missing total_gamma, before Plotly.newPlot
drawGammaExposureChart(data, darkMode) ==
    LET strikes == [i \in 1..Len(data) |-> data[i].strike_price]
        gammaValues == [i \in 1..Len(data) |-> data[i].total_gamma]
    IN  IF \E i \in 1..Len(data) : gammaValues[i] = Null
        THEN [threw |-> TRUE, plot |-> NoPlot]
        ELSE [threw |-> FALSE,
              plot |-> [data |-> << [y |-> strikes,
                                     x |-> [i \in 1..Len(data) |-> gammaValues[i][1]],
                                     name |-> "", type |-> "bar"] >>,
                        layout |-> [title |-> <<"Gamma Exposure by Strike">>,
                                    plot_bgcolor |-> IF darkMode THEN "rgb(29, 32, 33)" ELSE "white",
                                    paper_bgcolor |-> IF darkMode THEN "rgb(29, 32, 33)" ELSE "white",
                                    fontcolor |-> IF darkMode THEN "white" ELSE "black"]]]

\* updateMetricsDisplay(data): #metric-1-value from spot_price and
\* price_change_pct; a missing field prints as "undefined" and nothing throws
updateMetricsDisplay(display, id) == [display EXCEPT !.spot = id, !.pct = id]

\* loadMarketMetrics(): if (pauseUpdates) return; $.ajax("/api/market-metrics")
loadMarketMetrics ==
    IF pauseUpdates
    THEN UNCHANGED <<sentMarket, pendingMarket>>
    ELSE /\ sentMarket < MaxRequests
         /\ sentMarket' = sentMarket + 1
         /\ pendingMarket' = pendingMarket \cup
                {[id |-> sentMarket + 1, cycle |-> sentExposure + 1]}

\* loadGammaExposureData without its pause check
loadGammaExposureData_Ungated ==
    /\ sentExposure < MaxRequests
    /\ sentExposure' = sentExposure + 1
    /\ pendingExposure' = pendingExposure \cup
           {[id |-> sentExposure + 1, expiry |-> expirySelect']}

\* loadGammaExposureData(): if (pauseUpdates) return; $.ajax("/api/gamma-exposure")
\* with expiry_filter: currentExpiryFilter
loadGammaExposureData ==
    IF pauseUpdates
    THEN UNCHANGED <<sentExposure, pendingExposure>>
    ELSE /\ sentExposure < MaxRequests
         /\ sentExposure' = sentExposure + 1
         /\ pendingExposure' = pendingExposure \cup
                {[id |-> sentExposure + 1, expiry |-> expirySelect']}

\* refreshCharts()
refreshCharts == loadGammaExposureData

\* the state $(document).ready leaves: both loads issued, the interval set
InitCss ==
    /\ pauseUpdates = FALSE
    /\ expirySelect = InitialExpiryFilter
    /\ theme = "dark"
    /\ stored = "none"
    /\ customerSelect = DefaultCustomer
    /\ chart = EmptyCard
    /\ pendingExposure = {[id |-> 1, expiry |-> InitialExpiryFilter]}
    /\ sentExposure = 1
    /\ pendingMarket = {[id |-> 1, cycle |-> 1]}
    /\ sentMarket = 1
    /\ market = StaticMarket
    /\ settled = {}
    /\ console = NoError
    /\ now = 0
    /\ timers = PageTimers
    /\ exposureData = <<>>
    /\ plot = NoPlot
    /\ pc = "off"

\* refreshData() of styles.css, called by setInterval every 60000 ms
refreshData_css ==
    /\ UNCHANGED <<theme, stored, expirySelect, customerSelect, pauseUpdates,
                   chart, market, settled, console, seriesVars, timeVars>>
    /\ IF ~pauseUpdates
       THEN loadMarketMetrics /\ loadGammaExposureData
       ELSE UNCHANGED <<sentMarket, pendingMarket, sentExposure, pendingExposure>>

\* the change handler of #pauseUpdates
PauseChange ==
    /\ pauseUpdates' = ~pauseUpdates
    /\ UNCHANGED <<theme, stored, expirySelect, customerSelect, pendingMarket,
                   pendingExposure, sentMarket, sentExposure, chart, market,
                   settled, console, seriesVars, timeVars>>

\* the change handler of #expiryFilter
ExpiryFilterChange ==
    /\ \E v \in ExpiryOptions \ {expirySelect} : expirySelect' = v
    /\ UNCHANGED <<theme, stored, customerSelect, pauseUpdates, pendingMarket,
                   sentMarket, chart, market, settled, console, seriesVars, timeVars>>
    /\ loadGammaExposureData

\* the click handler of #dark-mode-toggle
DarkModeToggle ==
    /\ theme' = IF theme = "dark" THEN "light" ELSE "dark"
    /\ UNCHANGED <<stored, expirySelect, customerSelect, pauseUpdates,
                   pendingMarket, sentMarket, chart, market, settled, console,
                   seriesVars, timeVars>>
    /\ refreshCharts

\* the success / error callbacks of loadMarketMetrics for one settled request
MarketSettles_css ==
    /\ \E r \in pendingMarket, outcome \in FetchOutcomes :
          /\ pendingMarket' = pendingMarket \ {r}
          /\ IF outcome = "ok"
             THEN market' = updateMetricsDisplay(market, r.id) /\ console' = console
             ELSE market' = market /\ console' = Logged("market", outcome)
    /\ UNCHANGED <<theme, stored, expirySelect, customerSelect, pauseUpdates,
                   pendingExposure, sentMarket, sentExposure, chart, settled,
                   seriesVars, timeVars>>

\* the success / error callbacks of loadGammaExposureData for one settled
\* request: the chart is drawn with the theme at that time; an error is logged
\* and the card is left as it was
ExposureSettles_css ==
    /\ \E r \in pendingExposure, outcome \in FetchOutcomes :
          /\ pendingExposure' = pendingExposure \ {r}
          /\ IF outcome = "ok"
             THEN \E data \in CssPayloads :
                      LET res == drawGammaExposureChart(data, theme = "dark")
                      IN  /\ chart' = IF res.threw THEN chart
                                      ELSE PlotCard(r.id, res.plot)
                          /\ console' = IF res.threw
                                        THEN Logged("exposure", "TypeError")
                                        ELSE console
             ELSE /\ chart' = chart
                  /\ console' = Logged("exposure", outcome)
    /\ UNCHANGED <<theme, stored, expirySelect, customerSelect, pauseUpdates,
                   pendingMarket, sentMarket, sentExposure, market, settled,
                   seriesVars, timeVars>>

NextCss ==
    \/ refreshData_css
    \/ PauseChange
    \/ ExpiryFilterChange
    \/ DarkModeToggle
    \/ MarketSettles_css
    \/ ExposureSettles_css

SpecCss == InitCss /\ [][NextCss]_vars

-----------------------------------------------------------------------------
(* Properties of the event loops *)

\* the fetches of an endpoint that have settled
SettledOf(endpoint) == {x \in settled : x.endpoint = endpoint}

\* the largest number of a set of numbers, 0 for the empty set
Newest(S) == IF S = {} THEN 0 ELSE CHOOSE n \in S : \A m \in S : m <= n

\* C1: single-flight: at no time are two requests to the same endpoint
\* outstanding together
C1_SingleFlight ==
    /\ Cardinality(pendingExposure) <= 1
    /\ Cardinality(pendingMarket) <= 1

\* C2: no stale overwrite: once no request is outstanding the chart shows the
\* response of the request started last, and the market display is never
\* older than the newest snapshot that was rendered
C2_NoStaleOverwrite ==
    /\ pendingExposure = {} => chart.req = sentExposure
    /\ pendingMarket = {} =>
           market.spot >= Newest({x.id : x \in {y \in SettledOf("market") : y.ok}})

\* a timer firing that issues a fresh request to both endpoints
FreshCycle ==
    /\ refreshData
    /\ [id |-> sentMarket + 1, cycle |-> sentExposure + 1] \in pendingMarket'
    /\ [id |-> sentExposure + 1, expiry |-> expirySelect] \in pendingExposure'

\* a filter change that issues a fresh exposure request
FreshExposure ==
    /\ ExpiryChange
    /\ \E r \in pendingExposure' : r.id = sentExposure + 1 /\ r.expiry = expirySelect'

C4_PauseGate ==
    [][pauseUpdates =>
          /\ sentMarket' = sentMarket
          /\ sentExposure' = sentExposure
          /\ (pendingMarket' = pendingMarket /\ pendingExposure' = pendingExposure)
                 => UNCHANGED <<chart, market, console>>]_vars

\* paused, with the theme toggled and the filter changed during the pause:
\* no request but the first one was issued
C4_Witness ==
    /\ pauseUpdates
    /\ theme = "light"
    /\ expirySelect = "weekly"
    /\ sentExposure = 1
    /\ sentMarket = 1

\* the fetch whose settling is this step
JustSettled == settled' \ settled

\* C5: the two fetches of a cycle fail independently: a market snapshot that
\* arrives complete is displayed whatever became of the exposure fetch of its
\* cycle, and leaves the chart alone; an exposure response is plotted, or its
\* error shown, whatever became of the market fetch, and leaves the market
\* display alone
C5_IndependentFailures ==
    [][\A x \in JustSettled :
          /\ (x.endpoint = "market" /\ x.ok) =>
                 /\ market'.spot = x.id /\ market'.pct = x.id
                 /\ market'.abs = x.id /\ market'.ts = x.id
                 /\ ~market'.error
                 /\ chart' = chart
          /\ (x.endpoint = "market" /\ ~x.ok) => chart' = chart
          /\ (x.endpoint = "exposure" /\ x.ok) =>
                 /\ chart'.kind = "plot" /\ chart'.req = x.id
                 /\ market' = market
          /\ (x.endpoint = "exposure" /\ ~x.ok) =>
                 /\ chart' = ErrorCard(x.id)
                 /\ market' = market]_vars

\* the exposure fetch of cycle 2 failed, the market fetch of the same cycle
\* succeeded afterwards: the error on the chart, the new snapshot on the cards
C5_Witness ==
    /\ \E x \in SettledOf("exposure") : x.cycle = 2 /\ ~x.ok
    /\ \E x \in SettledOf("market") : x.cycle = 2 /\ x.id = 2 /\ x.ok
    /\ chart = ErrorCard(2)
    /\ market.spot = 2 /\ market.ts = 2

\* C6: a theme toggle made while no fetch is pending issues no request
C6_ToggleIssuesNoRequest ==
    [][(theme' # theme /\ pendingMarket = {} /\ pendingExposure = {}) =>
          /\ sentMarket' = sentMarket
          /\ sentExposure' = sentExposure]_vars

\* C7: every failed fetch puts its own card, and only that card, into the
\* error state
C7_ErrorOnOwnCard ==
    [][\A x \in JustSettled :
          ~x.ok =>
              /\ x.endpoint = "exposure" => (chart'.kind = "error" /\ market' = market)
              /\ x.endpoint = "market" => (market'.error /\ chart' = chart)]_vars

\* a step that changes the selection of #expiry-select or #customer-select
FilterChanged == expirySelect' # expirySelect \/ customerSelect' # customerSelect

\* the exposure requests a step issues
IssuedExposure == pendingExposure' \ pendingExposure

C13_RefreshButtonStartsCycle ==
    (/\ pendingMarket = {}
     /\ pendingExposure = {}
     /\ sentMarket < MaxRequests
     /\ sentExposure < MaxRequests)
    => ENABLED (/\ RefreshClick
                /\ sentMarket' = sentMarket + 1
                /\ sentExposure' = sentExposure + 1)

\* C14 as stated: an exposure request carries in its URL the expiry
\* selected when it is issued and, when a customer is selected, the customer
C14_RequestCarriesSelection ==
    [][\A r \in IssuedExposure :
          LET query == ExposureUrl(r).query
          IN  /\ query.expiry_filter = expirySelect'
              /\ customerSelect' # DefaultCustomer =>
                    \E f \in DOMAIN query : query[f] = customerSelect']_vars

\* C15: there is one interval of 60000 ms at every moment, its next firing
\* is the next multiple of 60000 ms whatever happened since the last one, and
\* only a firing moves it: the firing happens at the due time, starts a
\* cycle of both requests and is due again 60000 ms later
C15_TimerUntouched ==
    /\ [](/\ Cardinality(timers) = 1
          /\ \A t \in timers :
                /\ t.period = 60000
                /\ t.due % 60000 = 0
                /\ t.due - 60000 <= now
                /\ now <= t.due)
    /\ [][timers' # timers =>
             /\ \A t \in timers : now' = t.due
             /\ \A t \in timers' : t.due = now' + 60000
             /\ sentMarket' = sentMarket + 1
             /\ sentExposure' = sentExposure + 1]_vars

\* the interval fired at 60000 ms after a failed fetch, half a period has
\* passed since, and the next firing is due at 120000 ms
C15_Witness ==
    /\ now = 90000
    /\ sentMarket = 2
    /\ \E x \in settled : ~x.ok
    /\ timers = {[period |-> 60000, due |-> 120000]}

\* C20: the step in which the response of an exposure request arrives puts
\* its plot, or its error message, on the card and leaves the market requests
\* as they are; and with no market response ever arriving, every exposure
\* request issued is settled that way
C20_ExposureRendersAlone ==
    /\ [][\A r \in pendingExposure \ pendingExposure' :
             /\ chart' .req = r.id
             /\ chart' .kind \in {"plot", "error"}
             /\ pendingMarket' = pendingMarket]_vars
    /\ \A id \in 1..MaxRequests :
          (\E r \in pendingExposure : r.id = id)
              ~> (\E x \in SettledOf("exposure") : x.id = id)

\* the chart of the second cycle is drawn while no market request has settled
C20_Witness ==
    /\ chart.kind = "plot"
    /\ chart.req = 2
    /\ pendingExposure = {}
    /\ Cardinality(pendingMarket) = 2
    /\ SettledOf("market") = {}


\* the polls the elements of the market cards were written from
DisplayedPolls == {market.spot, market.pct, market.abs, market.ts} \ {0}

\* C21 as stated: the spot price, the change percentage, the absolute change
\* and the timestamp on display were all written from one poll, never from two
C21_SingleSnapshot == Cardinality(DisplayedPolls) <= 1

\* a step the page takes as a trigger: the interval fires, the theme is
\* toggled, a filter is changed
TriggerStep == timers' # timers \/ theme' # theme \/ FilterChanged

\* C22: a step issues at most one request to an endpoint, each as one fetch;
\* a step that issues one is a trigger and is not the step in which a
\* response arrives or a fetch fails, so that the requests sent to an
\* endpoint never outnumber the triggers
C22_NoRetry ==
    [][/\ sentMarket' \in {sentMarket, sentMarket + 1}
       /\ sentExposure' \in {sentExposure, sentExposure + 1}
       /\ Cardinality(pendingMarket' \ pendingMarket) = sentMarket' - sentMarket
       /\ Cardinality(IssuedExposure) = sentExposure' - sentExposure
       /\ (sentMarket' # sentMarket \/ sentExposure' # sentExposure) =>
              /\ TriggerStep
              /\ JustSettled = {}]_vars

\* the first market fetch failed and nothing was sent to the endpoint until
\* the interval fired
C22_Witness ==
    /\ \E x \in SettledOf("market") : x.id = 1 /\ ~x.ok
    /\ sentMarket = 2
    /\ \E r \in pendingMarket : r.id = 2
    /\ now = 60000

PausedRequestIsDrawn ==
    pauseUpdates =>
        \A r \in pendingExposure :
            ENABLED (/\ ExposureSettles_css
                     /\ r \notin pendingExposure'
                     /\ chart' .kind = "plot"
                     /\ chart' .req = r.id)

\* a step that loads the page again
Reloaded == sentExposure' < sentExposure \/ (settled # {} /\ settled' = {})

C25_ExpiryInEnum ==
    \A r \in pendingExposure : r.expiry \in {"0dte", "weekly", "monthly", "all"}

\* C26: the step in which an exposure request settles, with a body or with
\* a failure, puts a chart or the error message on the card, and with no
\* exposure request in flight the card shows one of the two, never the
\* loading message
C26_NeverStuckLoading ==
    /\ [](pendingExposure = {} => chart.kind \in {"plot", "error"})
    /\ [][pendingExposure \ pendingExposure' # {} =>
             chart' .kind \in {"plot", "error"}]_vars

\* the second request failed after the card showed the loading message
\* again: the card shows the error and nothing is in flight
C26_Witness ==
    /\ pendingExposure = {}
    /\ sentExposure = 2
    /\ chart = ErrorCard(2)
    /\ \E x \in SettledOf("exposure") : x.id = 1 /\ x.ok

-----------------------------------------------------------------------------
(* Properties of the series builder *)

\* the strikes of the built series
Strikes == plot.data[1].y

\* the put channel of the built series
Puts == plot.data[2].x

\* the array was not empty and the builder has run
Built == pc = "done" /\ Len(exposureData) > 0

\* C8: for an input of N > 20 records the built series has at most
\* floor(N / step) + 1 strikes, step = max(1, floor(N / 20)), and its strikes
\* are in non-decreasing order
C8_CountAndOrder ==
    (Built /\ Len(exposureData) > 20) =>
        LET N == Len(exposureData)
            step == Max(1, N \div 20)
        IN  /\ Len(Strikes) <= (N \div step) + 1
            /\ \A i \in 1..(Len(Strikes) - 1) : Strikes[i] <= Strikes[i + 1]

\* an unsorted input of more than 40 records, decimated by a step of 2
C8_Witness ==
    /\ Built
    /\ Len(exposureData) > 40
    /\ \E i \in 1..(Len(exposureData) - 1) :
          exposureData[i].strike_price > exposureData[i + 1].strike_price
    /\ Len(Strikes) < Len(exposureData)

\* C9: the number of bars never exceeds 39, whatever the input size, and
\* equals the input size for fewer than 20 records
C9_BarCap ==
    Built =>
        /\ Len(Strikes) <= 39
        /\ (Len(exposureData) < 20 => Len(Strikes) = Len(exposureData))

\* 39 records give 39 bars, the largest count there is
C9_Witness == Built /\ Len(exposureData) = 39 /\ Len(Strikes) = 39

\* C10: every put value of the series is <= 0, a null put gives 0, and
\* forcing the sign of a forced value changes nothing
C10_PutSign ==
    Built =>
        /\ \A i \in 1..Len(Puts) :
              /\ Puts[i] <= 0
              /\ PutValue(Num(Puts[i])) = Puts[i]
        /\ Len(Strikes) = Len(exposureData) =>
              Cardinality({k \in 1..Len(Puts) : Puts[k] = 0}) >=
              Cardinality({i \in 1..Len(exposureData) :
                              exposureData[i].put_gamma_exposure = Null})

\* a positive, a negative and a null put in one built series
C10_Witness ==
    /\ Built
    /\ Len(Strikes) = Len(exposureData)
    /\ \E i, j, k \in 1..Len(exposureData) :
          /\ exposureData[i].put_gamma_exposure # Null
          /\ exposureData[j].put_gamma_exposure # Null
          /\ OrZero(exposureData[i].put_gamma_exposure) > 0
          /\ OrZero(exposureData[j].put_gamma_exposure) < 0
          /\ exposureData[k].put_gamma_exposure = Null
    /\ \E i \in 1..Len(Puts) : Puts[i] < 0
    /\ \E i \in 1..Len(Puts) : Puts[i] = 0

Calls == plot.data[1].x

Net == plot.data[3].x

\* every trace of the plot has a placeholder name
IsSample ==
    \A k \in 1..Len(plot.data) :
        plot.data[k].name \in {"Calls (Sample)", "Puts (Sample)"}

\* no trace of the plot has one
IsReal ==
    \A k \in 1..Len(plot.data) :
        plot.data[k].name \notin {"Calls (Sample)", "Puts (Sample)"}

\* C11: the plot is marked as the placeholder (its traces are named
\* "... (Sample)") exactly when the input array is empty
C11_SampleFlag ==
    pc = "done" =>
        /\ Len(plot.data) > 0
        /\ IF Len(exposureData) = 0 THEN IsSample ELSE IsReal

\* the placeholder built from the empty array
C11_Witness ==
    /\ pc = "done"
    /\ Len(exposureData) = 0
    /\ plot.data[1].name = "Calls (Sample)"
    /\ plot.data[1].y = SampleStrikes

\* C16: the strikes, calls, puts and nets of the series have one length,
\* position k of each comes from one input record (call || 0,
\* -|put || 0|, total || 0), and the example of section 8 gives
\* strikes [90, 100], calls [1, 5], puts [-9, -3], net [-8, 2]
C16_AlignedValues ==
    Built =>
        /\ Len(Calls) = Len(Strikes)
        /\ Len(Puts) = Len(Strikes)
        /\ Len(Net) = Len(Strikes)
        /\ plot.data[2].y = Strikes
        /\ plot.data[3].y = Strikes
        /\ \A k \in 1..Len(Strikes) :
              \E i \in 1..Len(exposureData) :
                  /\ Strikes[k] = exposureData[i].strike_price
                  /\ Calls[k] = OrZero(exposureData[i].call_gamma_exposure)
                  /\ Puts[k] = -Abs(OrZero(exposureData[i].put_gamma_exposure))
                  /\ Net[k] = OrZero(exposureData[i].total_gamma_exposure)
        /\ exposureData = ExampleInput =>
              /\ Strikes = <<90, 100>>
              /\ Calls = <<1, 5>>
              /\ Puts = <<-9, -3>>
              /\ Net = <<-8, 2>>

\* the example built
C16_Witness ==
    /\ Built
    /\ exposureData = ExampleInput
    /\ Strikes = <<90, 100>>
    /\ Net = <<-8, 2>>

\* the number of records the stable sort by strike puts before record i
Rank(i) ==
    Cardinality({j \in 1..Len(exposureData) :
                    \/ exposureData[j].strike_price < exposureData[i].strike_price
                    \/ /\ exposureData[j].strike_price = exposureData[i].strike_price
                       /\ j < i})

\* C17: the series holds exactly the records at the sorted positions 0,
\* step, 2 * step, ..., in that order, equal strikes in input order; the
\* record of the lowest strike is at its head; each position carries the
\* values of that one record
C17_Decimation ==
    Built =>
        LET n == Len(exposureData)
            step == IF n \div 20 > 1 THEN n \div 20 ELSE 1
            retained == {i \in 1..n : Rank(i) % step = 0}
        IN  /\ Len(Strikes) = Cardinality(retained)
            /\ \A i \in retained :
                  LET k == (Rank(i) \div step) + 1
                  IN  /\ Strikes[k] = exposureData[i].strike_price
                      /\ Calls[k] = OrZero(exposureData[i].call_gamma_exposure)
                      /\ Puts[k] = -Abs(OrZero(exposureData[i].put_gamma_exposure))
                      /\ Net[k] = OrZero(exposureData[i].total_gamma_exposure)
            /\ \A i \in 1..n : Strikes[1] <= exposureData[i].strike_price

\* sixty records over five strikes, every third one of the sorted order kept
C17_Witness ==
    /\ Built
    /\ Len(exposureData) = 60
    /\ Len(Strikes) = 20
    /\ \E i, j \in 1..Len(exposureData) :
          /\ i < j
          /\ exposureData[i].strike_price = exposureData[j].strike_price
    /\ \E k \in 1..19 : Strikes[k] = Strikes[k + 1]

\* C18: the plot built under the other theme from the same array and expiry
\* has the same traces and the same title; the colours are what differs
C18_ThemeIndependence ==
    Built =>
        LET other == createGammaExposurePlot(exposureData, expirySelect,
                                             theme # "dark", <<>>)
        IN  /\ plot.data = other.data
            /\ plot.layout.title = other.layout.title
            /\ plot.layout.fontcolor # other.layout.fontcolor
            /\ plot.layout.plot_bgcolor # other.layout.plot_bgcolor

\* a series built under the light theme
C18_Witness ==
    /\ Built
    /\ theme = "light"
    /\ plot.layout.fontcolor = "#333333"
    /\ Len(Strikes) > 1

\* C19: the call of the builder leaves the array it was given as it was
C19_InputUntouched == [][pc' = "done" => exposureData' = exposureData]_vars

\* a descending array of forty records after its series was built
C19_Witness ==
    /\ Built
    /\ Len(exposureData) = 40
    /\ \A i \in 1..39 :
          exposureData[i].strike_price > exposureData[i + 1].strike_price
    /\ Len(Strikes) = 20
    /\ Strikes[1] < Strikes[2]

====
